---- MODULE Spec2Model ----
(***************************************************************************)
(* Model of src/main.rs: the resolve-then-partition pipeline               *)
(*   get_duration_until(now_time, target) -> (Duration, end_time) | error  *)
(*   create_schedule(now_time, target)    -> Schedule | error              *)
(*                                                                         *)
(* Time.  A DateTime<Tz> is an instant; it is modelled as a whole number   *)
(* of seconds on the UTC time line.  A Duration is a whole number of       *)
(* seconds; num_minutes() truncates it to whole minutes.  The wall-clock   *)
(* fields of an instant (year/month/day, hour/minute/second) are those of  *)
(* the Europe/London zone, whose offset from UTC is 0 (GMT) or one hour    *)
(* (BST); every caller in the source passes a now_time in that zone.       *)
(* Fractions of a second are not modelled: num_minutes() truncates them as  *)
(* it truncates whole seconds.                                             *)
(* Four kinds of calendar day are modelled:                                *)
(*   "gmt"    offset 0 throughout                                          *)
(*   "bst"    offset +1h throughout (the day of the unit test)             *)
(*   "spring" the clocks go forward at 01:00 UTC (01:00 GMT -> 02:00 BST)  *)
(*   "autumn" the clocks go back    at 01:00 UTC (02:00 BST -> 01:00 GMT)  *)
(***************************************************************************)
EXTENDS Integers, Sequences, FiniteSets

VARIABLES day, now_time, target, pc, resolved, schedule

vars == <<day, now_time, target, pc, resolved, schedule>>

---------------------------------------------------------------------------
\* Units of chrono's Duration and NaiveTime.
SecsPerMin == 60
MinsPerHour == 60
HoursPerDay == 24
SecsPerHour == SecsPerMin * MinsPerHour
SecsPerDay == SecsPerHour * HoursPerDay

\* Duration::minutes(30) and Duration::minutes(5), in minutes.
IntervalMins == 30
RestMins == 5

\* Bounds of the inputs.
\* The UTC date (a day number) on which the modelled instants of now lie.
BaseDate == 1
\* Largest values drawn for the u32 fields of Target; each is one past the
\* largest valid value, so invalid targets are drawn too.
MaxTargetHour == 24
MaxTargetMin == 60
MaxTargetSec == 60

DayKinds == {"gmt", "bst", "spring", "autumn"}
NowMins == {0, 1, 20, 29, 30, 31, 50, 59}
NowSecs == {0, 30}
TargetMins == {0, 30, MaxTargetMin}
TargetSecs == {0, 30, MaxTargetSec}

NowTimes ==
    { BaseDate * SecsPerDay + h * SecsPerHour + m * SecsPerMin + s :
        h \in 0..(HoursPerDay - 1), m \in NowMins, s \in NowSecs }

Targets == [hour : 0..MaxTargetHour, min : TargetMins, sec : TargetSecs]

---------------------------------------------------------------------------
\* Duration::minutes(n)
Minutes(n) == n * SecsPerMin

\* Duration::num_minutes(): whole minutes, truncated (durations are >= 0 here)
num_minutes(d) == d \div SecsPerMin

\* let interval_target = Duration::minutes(30);
interval_target == Minutes(IntervalMins)

\* let rest_interval = Duration::minutes(5);
rest_interval == Minutes(RestMins)

---------------------------------------------------------------------------
\* Europe/London.  The instant at which the offset changes on a "spring" or
\* "autumn" day: 01:00 UTC.
Transition == BaseDate * SecsPerDay + SecsPerHour

\* The offset from UTC, in seconds, in force at the instant u.
LondonOffset(d, u) ==
    CASE d = "gmt"    -> 0
      [] d = "bst"    -> SecsPerHour
      [] d = "spring" -> IF u < Transition THEN 0 ELSE SecsPerHour
      [] d = "autumn" -> IF u < Transition THEN SecsPerHour ELSE 0

\* The naive local datetime (seconds) shown by London clocks at the instant u.
NaiveLocal(d, u) == u + LondonOffset(d, u)

\* now_time.year(), .month(), .day(): the local calendar date, as a day number.
DateOf(d, u) == NaiveLocal(d, u) \div SecsPerDay

\* .hour(), .minute(), .second() of the instant u, as seconds after local midnight.
TimeOfDay(d, u) == NaiveLocal(d, u) % SecsPerDay

\* NaiveTime::from_hms_opt(hour, min, sec).is_some()
ValidHms(t) == t.hour < HoursPerDay /\ t.min < MinsPerHour /\ t.sec < SecsPerMin

\* Seconds after midnight of a valid hour/minute/second.
HmsSeconds(t) == t.hour * SecsPerHour + t.min * SecsPerMin + t.sec

\* TimeZone::from_local_datetime: the instants at which London clocks show
\* the naive local datetime l.  Empty in the gap of a "spring" day, two
\* instants in the overlap of an "autumn" day, one instant otherwise.
\* Faulty variant: the naive datetime is read as UTC, the zone forgotten.
MutFromLocalDatetime(d, l) == {l}

FromLocalDatetime(d, l) ==
    {u \in {l, l - SecsPerHour} : NaiveLocal(d, u) = l}

None == -1

\* Utc.ymd(y, m, d).with_timezone(&London).and_hms_opt(hour, min, sec):
\* the date keeps its day number, the time must be a valid NaiveTime and the
\* local datetime must map to a single instant (LocalResult::single()).
and_hms_opt(d, date, t) ==
    IF ~ValidHms(t) THEN None
    ELSE LET us == FromLocalDatetime(d, date * SecsPerDay + HmsSeconds(t))
         IN  IF Cardinality(us) = 1 THEN CHOOSE u \in us : TRUE ELSE None

\* end_time.cmp(now_time) == Ordering::Greater
\* Faulty variant: Ordering::Equal accepted as well.
MutEndIsGreater(end, now) == end >= now

EndIsGreater(end, now) == end > now

\* Results of get_duration_until.
Pending == [tag |-> "Pending", diff |-> 0, end_time |-> 0]
ResolveErr(e) == [tag |-> e, diff |-> 0, end_time |-> 0]
ResolveOk(diff, end) == [tag |-> "Ok", diff |-> diff, end_time |-> end]

get_duration_until(d, now, t) ==
    LET end_time == and_hms_opt(d, DateOf(d, now), t)
    IN  IF end_time = None THEN ResolveErr("InvalidHourMinSec")
        ELSE IF EndIsGreater(end_time, now)
             THEN ResolveOk(end_time - now, end_time)
             ELSE ResolveErr("NotInTheFuture")

---------------------------------------------------------------------------
\* Results of create_schedule.
NoEntries == << >>
NotCalled == [tag |-> "NotCalled", entries |-> NoEntries,
              start_time |-> 0, end_time |-> 0, remaining |-> 0]
ScheduleErr(e) == [tag |-> e, entries |-> NoEntries,
                   start_time |-> 0, end_time |-> 0, remaining |-> 0]

Activity(k, dur) == [kind |-> k, duration |-> dur]

\* match dur.num_minutes().cmp(&interval_target.num_minutes()): Less | Equal
\* Faulty variant: the Ordering::Equal arm falls through to the partition.
MutNotGreater(dur) == num_minutes(dur) < num_minutes(interval_target)

NotGreater(dur) == num_minutes(dur) <= num_minutes(interval_target)

\* let iterations = dur.num_minutes() / interval_target.num_minutes();
iterations(dur) == num_minutes(dur) \div num_minutes(interval_target)

\* let remaining_mins = dur.num_minutes() % interval_target.num_minutes();
\* Faulty variant: the remainder taken modulo the work span.
Mut_remaining_mins(dur) ==
    num_minutes(dur) % num_minutes(interval_target - rest_interval)

remaining_mins(dur) == num_minutes(dur) % num_minutes(interval_target)

\* duration: interval_target - rest_interval
\* Faulty variant: the rest is not subtracted from the interval.
MutWorkDuration == interval_target

WorkDuration == interval_target - rest_interval

\* vec![Activity {Work}, Activity {Rest}]
\* Faulty variant: the pair in the order Rest, Work.
MutIntervalPair ==
    << Activity("Rest", rest_interval), Activity("Work", WorkDuration) >>

IntervalPair ==
    << Activity("Work", WorkDuration), Activity("Rest", rest_interval) >>

\* (0..iterations).map(|num| vec![..]).flatten().collect()
RECURSIVE Flatten(_)
Flatten(n) == IF n = 0 THEN NoEntries ELSE Flatten(n - 1) \o IntervalPair

\* if remaining_mins > 0 { entries.push(Activity {Work, remaining_mins}) }
\* Faulty variants: the remainder pushed unconditionally; never pushed.
MutPushRemaining(es, dur) ==
    Append(es, Activity("Work", Minutes(remaining_mins(dur))))

MutSkipRemaining(es, dur) == es

PushRemaining(es, dur) ==
    IF remaining_mins(dur) > 0
    THEN Append(es, Activity("Work", Minutes(remaining_mins(dur))))
    ELSE es

\* The body of create_schedule after the call of get_duration_until; r is
\* that call's result, whose error the ? operator returns unchanged.
create_schedule(now, r) ==
    IF r.tag # "Ok" THEN ScheduleErr(r.tag)
    ELSE IF NotGreater(r.diff)
         THEN ScheduleErr("IntervalGreaterThanAvailableTime")
         ELSE [tag        |-> "Ok",
               entries    |-> PushRemaining(Flatten(iterations(r.diff)), r.diff),
               start_time |-> now,
               end_time   |-> r.end_time,
               remaining  |-> Minutes(remaining_mins(r.diff))]

---------------------------------------------------------------------------
Init ==
    /\ day \in DayKinds
    /\ now_time \in NowTimes
    /\ target \in Targets
    /\ pc = "start"
    /\ resolved = Pending
    /\ schedule = NotCalled

\* create_schedule, up to the return of its call of get_duration_until
GetDurationUntil ==
    /\ pc = "start"
    /\ resolved' = get_duration_until(day, now_time, target)
    /\ pc' = "resolved"
    /\ UNCHANGED <<day, now_time, target, schedule>>

\* create_schedule, from the ? on that call to its return
CreateSchedule ==
    /\ pc = "resolved"
    /\ schedule' = create_schedule(now_time, resolved)
    /\ pc' = "done"
    /\ UNCHANGED <<day, now_time, target, resolved>>

Next == GetDurationUntil \/ CreateSchedule

Spec == Init /\ [][Next]_vars

---------------------------------------------------------------------------
\* The unit test's helper for_time_and_target: for every entry, its kind,
\* its whole minutes and the London wall-clock hour and minute at which it
\* starts, running_time starting at schedule.start_time and advancing by
\* each entry's duration.
RECURSIVE SumDurations(_)
SumDurations(es) ==
    IF es = NoEntries THEN 0
    ELSE SumDurations(SubSeq(es, 1, Len(es) - 1)) + es[Len(es)].duration

running_time(s, i) == s.start_time + SumDurations(SubSeq(s.entries, 1, i - 1))

as_list(d, s) ==
    [i \in 1..Len(s.entries) |->
        << s.entries[i].kind,
           num_minutes(s.entries[i].duration),
           TimeOfDay(d, running_time(s, i)) \div SecsPerHour,
           (TimeOfDay(d, running_time(s, i)) % SecsPerHour) \div SecsPerMin >>]

\* test_schedule: for_time_and_target(9, 0, Target::hour_min(11, 30)) on
\* 2022-08-10, a BST day; the helper builds now from hour hr - 1 of UTC.
TestHr == 9
TestTargetHour == 11
TestTargetMin == 30
TestNow == BaseDate * SecsPerDay + (TestHr - 1) * SecsPerHour
TestTarget == [hour |-> TestTargetHour, min |-> TestTargetMin, sec |-> 0]
InTest == day = "bst" /\ now_time = TestNow /\ target = TestTarget

expected ==
    << <<"Work", 25, 9, 0>>,  <<"Rest", 5, 9, 25>>,
       <<"Work", 25, 9, 30>>, <<"Rest", 5, 9, 55>>,
       <<"Work", 25, 10, 0>>, <<"Rest", 5, 10, 25>>,
       <<"Work", 25, 10, 30>>, <<"Rest", 5, 10, 55>>,
       <<"Work", 25, 11, 0>>, <<"Rest", 5, 11, 25>> >>

---------------------------------------------------------------------------
\* Vocabulary of the properties.
Resolved == pc # "start"
Done == pc = "done"
Returned == Done /\ schedule.tag = "Ok"
Entries == schedule.entries
Last == Entries[Len(Entries)]

\* The available time of a resolved target, exact and in whole minutes.
Available == resolved.diff
AvailableMins == num_minutes(resolved.diff)

\* The candidate end timestamp: now's calendar date with the target's
\* hour/minute/second, when that is one instant.
Candidate == and_hms_opt(day, DateOf(day, now_time), target)

\* The target's wall-clock reading on now's calendar date is later than the
\* wall-clock reading of now.
TargetAfterNow ==
    DateOf(day, now_time) * SecsPerDay + HmsSeconds(target)
        > NaiveLocal(day, now_time)

---------------------------------------------------------------------------
\* C1: in every returned Schedule the durations of the timetable's entries
\* sum to end_time - start_time taken in whole minutes, also when now
\* carries non-zero seconds.
C1_SumInvariant ==
    Returned =>
        SumDurations(Entries)
            = Minutes(num_minutes(schedule.end_time - schedule.start_time))

\* C1 witness: a Schedule returned for a now with non-zero seconds, whose
\* entries sum to less than the exact end_time - start_time.
C1_Witness ==
    /\ Returned
    /\ now_time % SecsPerMin # 0
    /\ SumDurations(Entries) < schedule.end_time - schedule.start_time
    /\ Last.kind = "Work"

\* C2: in every returned timetable the entries at even 0-based indices are
\* Work and those at odd indices are Rest, adjacent entries differ in kind,
\* the first entry is Work and the last is a Rest closing a full interval or
\* a single unpaired Work.
C2_Alternation ==
    Returned =>
        /\ Len(Entries) >= 1
        /\ Entries[1].kind = "Work"
        /\ \A i \in 1..Len(Entries) :
              Entries[i].kind = IF i % 2 = 1 THEN "Work" ELSE "Rest"
        /\ \A i \in 1..(Len(Entries) - 1) :
              Entries[i].kind # Entries[i + 1].kind
        /\ \/ Last.kind = "Rest" /\ Len(Entries) % 2 = 0
           \/ Last.kind = "Work" /\ Len(Entries) % 2 = 1

\* C2 witness: a returned timetable of at least two pairs that ends with
\* an unpaired Work.
C2_Witness ==
    /\ Returned
    /\ Len(Entries) >= 5
    /\ Len(Entries) % 2 = 1

\* C3 as stated: with the target resolved, the call is rejected with
\* IntervalGreaterThanAvailableTime exactly when the available duration is
\* at most 30 minutes, and returns a Schedule exactly when it is longer.
C3_Original ==
    (Done /\ resolved.tag = "Ok") =>
        /\ schedule.tag = "IntervalGreaterThanAvailableTime"
              <=> Available <= Minutes(IntervalMins)
        /\ schedule.tag = "Ok" <=> Available > Minutes(IntervalMins)

\* C3 amended: with the target resolved, the call is rejected with
\* IntervalGreaterThanAvailableTime exactly when the available duration
\* truncated to whole minutes is at most 30, and returns a Schedule exactly
\* when the truncated duration is at least 31 minutes.
C3_RejectionBoundary ==
    (Done /\ resolved.tag = "Ok") =>
        /\ schedule.tag = "IntervalGreaterThanAvailableTime"
              <=> AvailableMins <= IntervalMins
        /\ schedule.tag = "Ok" <=> AvailableMins > IntervalMins
        /\ schedule.tag # "Ok" => schedule.entries = NoEntries

\* C3 witness: an available duration longer than 30 minutes and shorter
\* than 31 minutes, rejected.
C3_Witness ==
    /\ Done
    /\ resolved.tag = "Ok"
    /\ Available > Minutes(IntervalMins)
    /\ Available < Minutes(IntervalMins + 1)
    /\ schedule.tag = "IntervalGreaterThanAvailableTime"

\* C4: for every accepted available duration of A whole minutes the
\* timetable is floor(A / 30) pairs [Work 25, Rest 5] followed by one
\* Work(A mod 30) iff A mod 30 > 0, so it has 2k or 2k + 1 entries; the
\* entries laid end to end from start_time never pass end_time, and the
\* unit test's schedule (9:00 to 11:30) is five pairs starting at 9:00,
\* 9:25, 9:30, ..., 11:25.
C4_PartitionShape ==
    Returned =>
        LET A == AvailableMins
            k == A \div 30
            r == A % 30
        IN  /\ Len(Entries) = IF r = 0 THEN 2 * k ELSE 2 * k + 1
            /\ \A i \in 1..(2 * k) :
                  Entries[i] = IF i % 2 = 1
                               THEN Activity("Work", Minutes(25))
                               ELSE Activity("Rest", Minutes(5))
            /\ r > 0 => Last = Activity("Work", Minutes(r))
            /\ running_time(schedule, Len(Entries) + 1)
                  = schedule.start_time + Minutes(A)
            /\ running_time(schedule, Len(Entries) + 1) <= schedule.end_time
            /\ InTest => as_list(day, schedule) = expected

\* C4 witness: the unit test's schedule has been returned.
C4_Witness == Returned /\ InTest /\ Len(Entries) = 10

C6_InvalidTarget ==
    Resolved => (resolved.tag = "InvalidHourMinSec" <=> ~ValidHms(target))

\* C7: on success the end timestamp lies on now's calendar day and carries
\* the target's hour, minute and second; the duration is positive and is
\* end minus now; the Schedule's start_time is now and its end_time is
\* that end timestamp.
C7_ResolverResult ==
    /\ (Resolved /\ resolved.tag = "Ok") =>
          /\ DateOf(day, resolved.end_time) = DateOf(day, now_time)
          /\ TimeOfDay(day, resolved.end_time) = HmsSeconds(target)
          /\ resolved.diff > 0
          /\ resolved.diff = resolved.end_time - now_time
    /\ Returned =>
          /\ schedule.start_time = now_time
          /\ schedule.end_time = resolved.end_time

\* C7 witness: a Schedule returned on a day on which the clocks change
\* between now and the end timestamp.
C7_Witness ==
    /\ Returned
    /\ LondonOffset(day, now_time) # LondonOffset(day, schedule.end_time)
    /\ target.sec # 0

\* C8: every entry of every returned timetable has a duration greater than
\* zero; with a remainder of zero the timetable ends on a Rest.
C8_PositiveDurations ==
    Returned =>
        /\ \A i \in 1..Len(Entries) : Entries[i].duration > 0
        /\ AvailableMins % IntervalMins = 0 =>
              Last = Activity("Rest", Minutes(RestMins))

\* C8 witness: a Schedule returned for a whole number of intervals.
C8_Witness ==
    /\ Returned
    /\ AvailableMins % IntervalMins = 0
    /\ Len(Entries) = 2 * (AvailableMins \div IntervalMins)

\* C9: in every returned Schedule remaining is the available minutes mod
\* 30, so 0 <= remaining < 30 minutes; remaining > 0 iff the last entry is
\* Work, whose duration is then remaining; remaining = 0 iff the last entry
\* is Rest.
C9_Remaining ==
    Returned =>
        /\ schedule.remaining = Minutes(AvailableMins % 30)
        /\ schedule.remaining >= 0
        /\ schedule.remaining < Minutes(30)
        /\ schedule.remaining > 0 <=> Last.kind = "Work"
        /\ schedule.remaining > 0 => Last.duration = schedule.remaining
        /\ schedule.remaining = 0 <=> Last.kind = "Rest"

\* C9 witness: a Schedule returned with a remaining of 29 minutes, left by
\* an available duration that carries seconds.
C9_Witness ==
    /\ Returned
    /\ schedule.remaining = Minutes(29)
    /\ Available % SecsPerMin # 0
    /\ Last.duration = Minutes(29)

\* C10 as stated: every call ends in exactly one of a Schedule,
\* InvalidHourMinSec, NotInTheFuture or IntervalGreaterThanAvailableTime;
\* an invalid target gives InvalidHourMinSec; otherwise a target not
\* strictly after now gives NotInTheFuture; and
\* IntervalGreaterThanAvailableTime is given only for a valid target
\* strictly after now.
C10_ErrorPrecedence ==
    Done =>
        /\ schedule.tag \in {"Ok", "InvalidHourMinSec", "NotInTheFuture",
                             "IntervalGreaterThanAvailableTime"}
        /\ ~ValidHms(target) => schedule.tag = "InvalidHourMinSec"
        /\ (ValidHms(target) /\ ~TargetAfterNow) =>
              schedule.tag = "NotInTheFuture"
        /\ schedule.tag = "IntervalGreaterThanAvailableTime" =>
              (ValidHms(target) /\ TargetAfterNow)

====
